---- MODULE Spec2Model ----
(***************************************************************************)
(* Session orchestration of the MQTT v5 plaintext demo                     *)
(* (PlaintextMQTTExample.c): the time source prvGetTimeMs, the             *)
(* time-bounded pump prvProcessLoopWithTimeout and the transport connect   *)
(* loop prvConnectToServerWithBackoffRetries.                              *)
(*                                                                         *)
(* A uint32_t is kept at its full width as a pair <<hi, lo>> of 16-bit     *)
(* halves (value hi * 2^16 + lo), with the arithmetic done modulo 2^32.    *)
(***************************************************************************)
EXTENDS Integers, Sequences, FiniteSets, TLC

VARIABLES
    xTickCount,                    \* FreeRTOS tick counter (uint32 pair)
    ulGlobalEntryTimeMs,           \* static reference timestamp (uint32 pair)
    tickRateHz,                    \* configTICK_RATE_HZ of the build
    timeSamples,                   \* history: tick counts read and values prvGetTimeMs returned
    pumpPc,                        \* position in prvProcessLoopWithTimeout
    ulTimeoutMs,                   \* its argument (uint32 pair)
    ulCurrentTime,                 \* its local (uint32 pair)
    ulMqttProcessLoopTimeoutTime,  \* its local: the deadline (uint32 pair)
    eMqttStatus,                   \* its local
    pumpResult,                    \* the value it returned ("none" before)
    pumpStart,                     \* history: the first time sample of the call
    stepStatuses,                  \* history: statuses MQTT_ProcessLoop returned
    pumpElapsed,                   \* history: ms the time source advanced since pumpStart
    pumpWrapped,                   \* history: a time sample read lower than the one before
    retryPc,                       \* position in prvConnectToServerWithBackoffRetries
    cfgMaxAttempts,                \* the configured maximum of retry attempts
    xNetworkStatus,                \* its local
    xBackoffAlgStatus,             \* its local
    xReconnectParams,              \* its local: the backoff context
    usNextRetryBackOff,            \* its local (uint16)
    retryResult,                   \* the value it returned ("none" before)
    retryTrace,                    \* history: what the call did, in order
    xTopicFilterContext,           \* static array of topic filter records
    usPublishPacketIdentifier,     \* static packet identifier of the last publish
    pNextAckInfo,                  \* pxDeserializedInfo->pNextAckInfo of the last event
    xAckInfo,                      \* the acknowledgment record the engine lends out
    cbEvents,                      \* history: events delivered to prvEventCallback
    responseCalls,                 \* history: calls of prvMQTTProcessResponse
    dispLog,                       \* history: log entries of prvMQTTProcessResponse
    slotWrites,                    \* history: the slots the callback wrote an annotation through
    cbFault,                       \* the callback took a fault and never returned
    sessPc,                        \* position in prvMQTTDemoTask
    sessNetworkStatus,             \* xNetworkStatus of the caller of the connect loop
    xResult,                       \* xResult of prvCreateMQTTConnectionWithBroker
    xMQTTStatus,                   \* xMQTTStatus of prvMQTTDemoTask
    unread,                        \* history: stored statuses no code has read yet
    lostFailures,                  \* history: failures overwritten before being read
    earlierCalls,                  \* history: traces of the finished connect loop calls
    sessTrace                      \* history: operations of the session, in order

timeVars  == <<xTickCount, ulGlobalEntryTimeMs, tickRateHz, timeSamples>>
pumpVars  == <<pumpPc, ulTimeoutMs, ulCurrentTime, ulMqttProcessLoopTimeoutTime,
               eMqttStatus, pumpResult, pumpStart, stepStatuses, pumpElapsed,
               pumpWrapped>>
retryVars == <<retryPc, cfgMaxAttempts, xNetworkStatus, xBackoffAlgStatus,
               xReconnectParams, usNextRetryBackOff, retryResult, retryTrace>>
staticVars == <<xTopicFilterContext, usPublishPacketIdentifier>>
dispVars  == <<pNextAckInfo, xAckInfo, cbEvents, responseCalls, dispLog,
               slotWrites, cbFault>>
sessVars  == <<sessPc, sessNetworkStatus, xResult, xMQTTStatus, unread,
               lostFailures, earlierCalls, sessTrace>>
vars      == <<timeVars, pumpVars, retryVars, staticVars, dispVars, sessVars>>

----------------------------------------------------------------------------
(* Bounds of the model.                                                    *)

\* largest pump timeout (ms) drawn
MaxTimeout == 3
\* largest number of ticks that pass during one MQTT_ProcessLoop call
MaxAdvance == 2
\* MQTT_ProcessLoop calls followed in one pump call
MaxSteps == 5
\* transport connects followed in one retry call
MaxConnects == 8
\* largest configured attempt maximum drawn when the configuration varies
MaxAttemptsCfg == 2
\* events delivered to the callback when it is followed on its own
MaxEvents == 3
\* largest packet identifier drawn
MaxPacketId == 2
\* reads of the time source followed
MaxSamples == 3
\* polls of the network link that find it down
MaxNetworkWaits == 1
\* events the broker sends during the pump call of a session
MaxSessionEvents == 2
\* transport connects that fail in a session whose broker is reachable
MaxSessionFailures == 1

----------------------------------------------------------------------------
(* Program constants.                                                      *)

mqttexampleRETRY_MAX_ATTEMPTS == 5
mqttexampleRETRY_MAX_BACKOFF_DELAY_MS == 5000
mqttexampleRETRY_BACKOFF_BASE_MS == 500
MILLISECONDS_PER_SECOND == 1000
mqttexampleTOPIC_COUNT == 3
mqttexamplePROCESS_LOOP_TIMEOUT_MS == 2000
mqttexampleDELAY_BETWEEN_DEMO_ITERATIONS_MS == 5000
NETWORK_WAIT_MS == 1000
configTICK_RATE_HZ == 1000
\* MILLISECONDS_PER_TICK of a build whose tick rate is rate
MillisecondsPerTickAt(rate) == MILLISECONDS_PER_SECOND \div rate
MILLISECONDS_PER_TICK == MillisecondsPerTickAt(configTICK_RATE_HZ)

----------------------------------------------------------------------------
(* 32-bit unsigned arithmetic.                                             *)

Half == 65536

U32FromNat(n) == <<(n \div Half) % Half, n % Half>>

U32Add(a, b) ==
    LET lo == a[2] + b[2]
    IN  <<(a[1] + b[1] + (lo \div Half)) % Half, lo % Half>>

U32Sub(a, b) ==
    LET borrow == IF a[2] < b[2] THEN 1 ELSE 0
    IN  <<(a[1] - b[1] - borrow + Half) % Half, (a[2] - b[2] + Half) % Half>>

\* a * k modulo 2^32, for a small natural k
U32Mul(a, k) ==
    LET lo == a[2] * k
    IN  <<(a[1] * k + (lo \div Half)) % Half, lo % Half>>

U32Lt(a, b) == a[1] < b[1] \/ (a[1] = b[1] /\ a[2] < b[2])

U32Max == <<Half - 1, Half - 1>>

----------------------------------------------------------------------------
(* Time source.                                                            *)

\* prvGetTimeMs, reading tick count tick against entry time entry
GetTimeMsAt(tick, entry, rate) ==
    U32Sub(U32Mul(tick, MillisecondsPerTickAt(rate)), entry)

GetTimeMs(tick, entry) == GetTimeMsAt(tick, entry, configTICK_RATE_HZ)

prvGetTimeMs == GetTimeMs(xTickCount, ulGlobalEntryTimeMs)

\* d ticks pass and prvGetTimeMs is called, in a build of any tick rate
TimeRead(d) ==
    /\ xTickCount' = U32Add(xTickCount, U32FromNat(d))
    /\ timeSamples' = Append(timeSamples,
          [tick |-> xTickCount',
           ms |-> GetTimeMsAt(xTickCount', ulGlobalEntryTimeMs, tickRateHz)])
    /\ UNCHANGED <<ulGlobalEntryTimeMs, tickRateHz>>
    /\ UNCHANGED <<pumpVars, retryVars, staticVars, dispVars, sessVars>>

\* pdMS_TO_TICKS
pdMS_TO_TICKS(ms) == (ms * configTICK_RATE_HZ) \div 1000

----------------------------------------------------------------------------
(* prvProcessLoopWithTimeout.                                              *)

MQTTSuccess == "MQTTSuccess"
MQTTNeedMoreBytes == "MQTTNeedMoreBytes"
FatalStatuses == {"MQTTRecvFailed", "MQTTKeepAliveTimeout"}
StepStatuses == {MQTTSuccess, MQTTNeedMoreBytes} \cup FatalStatuses

\* the deadline computed at entry
PumpDeadlineNoTimeout(cur, timeout) == cur
PumpDeadline(cur, timeout) == U32Add(cur, timeout)

\* the condition of the while loop
PumpLoopCondAnyStatus(cur, deadline, st) == U32Lt(cur, deadline)
PumpLoopCondInclusive(cur, deadline, st) ==
    /\ ~U32Lt(deadline, cur)
    /\ st \in {MQTTSuccess, MQTTNeedMoreBytes}
PumpLoopCond(cur, deadline, st) ==
    /\ U32Lt(cur, deadline)
    /\ st \in {MQTTSuccess, MQTTNeedMoreBytes}

\* the status returned for a last status st
PumpFinalStatusRaw(st) == st
PumpFinalStatus(st) == IF st = MQTTNeedMoreBytes THEN MQTTSuccess ELSE st

\* entry: sample the time, compute the deadline
PumpEnter ==
    /\ pumpPc = "idle"
    /\ ulCurrentTime' = prvGetTimeMs
    /\ ulMqttProcessLoopTimeoutTime' = PumpDeadline(prvGetTimeMs, ulTimeoutMs)
    /\ eMqttStatus' = MQTTSuccess
    /\ pumpStart' = prvGetTimeMs
    /\ pumpPc' = "loop"
    /\ UNCHANGED <<ulTimeoutMs, pumpResult, stepStatuses, pumpElapsed, pumpWrapped>>
    /\ UNCHANGED <<timeVars, retryVars>>
    /\ UNCHANGED <<staticVars, dispVars, sessVars>>

\* one iteration: MQTT_ProcessLoop returns st while d ticks pass, then the
\* time is sampled again
PumpStep(st, d) ==
    /\ pumpPc = "loop"
    /\ PumpLoopCond(ulCurrentTime, ulMqttProcessLoopTimeoutTime, eMqttStatus)
    /\ Len(stepStatuses) < MaxSteps
    /\ eMqttStatus' = st
    /\ xTickCount' = U32Add(xTickCount, U32FromNat(d))
    /\ ulCurrentTime' = GetTimeMs(xTickCount', ulGlobalEntryTimeMs)
    /\ stepStatuses' = Append(stepStatuses, st)
    /\ pumpElapsed' = pumpElapsed + d * MILLISECONDS_PER_TICK
    /\ pumpWrapped' = (pumpWrapped \/ U32Lt(ulCurrentTime', ulCurrentTime))
    /\ UNCHANGED <<ulGlobalEntryTimeMs, tickRateHz, timeSamples, pumpPc, ulTimeoutMs,
                   ulMqttProcessLoopTimeoutTime, pumpResult, pumpStart>>
    /\ UNCHANGED retryVars
    /\ UNCHANGED <<staticVars, dispVars, sessVars>>

\* the loop has ended: collapse NeedMoreBytes and return
PumpReturn ==
    /\ pumpPc = "loop"
    /\ ~PumpLoopCond(ulCurrentTime, ulMqttProcessLoopTimeoutTime, eMqttStatus)
    /\ pumpResult' = PumpFinalStatus(eMqttStatus)
    /\ pumpPc' = "return"
    /\ UNCHANGED <<ulTimeoutMs, ulCurrentTime, ulMqttProcessLoopTimeoutTime,
                   eMqttStatus, pumpStart, stepStatuses, pumpElapsed, pumpWrapped>>
    /\ UNCHANGED <<timeVars, retryVars>>
    /\ UNCHANGED <<staticVars, dispVars, sessVars>>

----------------------------------------------------------------------------
(* Backoff algorithm (library called by the connect loop).                 *)

BackoffAlgorithmSuccess == "BackoffAlgorithmSuccess"
BackoffAlgorithmRetriesExhausted == "BackoffAlgorithmRetriesExhausted"

Min(a, b) == IF a <= b THEN a ELSE b

\* the retry state: attempt count, base delay, max delay, max attempts
BackoffAlgorithm_InitializeParams(base, maxDelay, maxAttempts) ==
    [attemptsDone |-> 0, backOffBase |-> base,
     maxBackoffDelay |-> maxDelay, maxRetryAttempts |-> maxAttempts]

\* delay = random(0, min(base * 2^attempt, max delay)) and the attempt
\* counter incremented, unless the attempts are exhausted
BackoffAlgorithm_GetNextBackoff(ctx, rand) ==
    IF ctx.attemptsDone < ctx.maxRetryAttempts
    THEN [status |-> BackoffAlgorithmSuccess,
          delay |-> rand % (Min(ctx.backOffBase * 2 ^ ctx.attemptsDone,
                                ctx.maxBackoffDelay) + 1),
          ctx |-> [ctx EXCEPT !.attemptsDone = @ + 1]]
    ELSE [status |-> BackoffAlgorithmRetriesExhausted,
          delay |-> 0,
          ctx |-> ctx]

----------------------------------------------------------------------------
(* prvConnectToServerWithBackoffRetries.                                   *)

PLAINTEXT_TRANSPORT_SUCCESS == "PLAINTEXT_TRANSPORT_SUCCESS"
ConnectFailures ==
    {"PLAINTEXT_TRANSPORT_INVALID_PARAMETER", "PLAINTEXT_TRANSPORT_CONNECT_FAILURE"}
ConnectOutcomes == {PLAINTEXT_TRANSPORT_SUCCESS} \cup ConnectFailures

\* values uxRand() returns: zero, the first jitter maximum, the delay
\* maximum, and one above 16 bits
RandValues == {0, 500, 5000, 70000}

\* the backoff context the call starts from
RetryInitialParamsBaseIsMax(maxAttempts) ==
    BackoffAlgorithm_InitializeParams(mqttexampleRETRY_MAX_BACKOFF_DELAY_MS,
                                      mqttexampleRETRY_MAX_BACKOFF_DELAY_MS,
                                      maxAttempts)
RetryInitialParams(maxAttempts) ==
    BackoffAlgorithm_InitializeParams(mqttexampleRETRY_BACKOFF_BASE_MS,
                                      mqttexampleRETRY_MAX_BACKOFF_DELAY_MS,
                                      maxAttempts)

\* whether the call sleeps after the backoff algorithm returned bs
RetryShouldSleepAlways(bs) == TRUE
RetryShouldSleep(bs) ==
    /\ bs # BackoffAlgorithmRetriesExhausted
    /\ bs = BackoffAlgorithmSuccess

\* the ticks slept for a stored backoff value
RetrySleepTicksBase(backoff) == pdMS_TO_TICKS(mqttexampleRETRY_BACKOFF_BASE_MS)
RetrySleepTicks(backoff) == pdMS_TO_TICKS(backoff)

\* the condition of the do-while loop
RetryLoopCondIgnoresBackoff(ns, bs) == ns # PLAINTEXT_TRANSPORT_SUCCESS
RetryLoopCondIgnoresNetwork(ns, bs) == bs = BackoffAlgorithmSuccess
RetryLoopCond(ns, bs) ==
    /\ ns # PLAINTEXT_TRANSPORT_SUCCESS
    /\ bs = BackoffAlgorithmSuccess

Event(ev, status, ms) == [ev |-> ev, status |-> status, ms |-> ms]

ConnectEvents == SelectSeq(retryTrace, LAMBDA e : e.ev = "connect")
BackoffEvents == SelectSeq(retryTrace, LAMBDA e : e.ev = "backoff")
SleepEvents == SelectSeq(retryTrace, LAMBDA e : e.ev = "sleep")

\* the backoff context a call starts with, whatever its storage held before
RetryEntryContextInitializedOnce(prev, maxAttempts) ==
    IF prev = BackoffAlgorithm_InitializeParams(0, 0, 0)
    THEN RetryInitialParams(maxAttempts)
    ELSE prev
RetryEntryContext(prev, maxAttempts) == RetryInitialParams(maxAttempts)

\* entry: the locals and the backoff context are initialised
RetryEnter ==
    /\ retryPc = "idle"
    /\ xBackoffAlgStatus' = BackoffAlgorithmSuccess
    /\ usNextRetryBackOff' = 0
    /\ xReconnectParams' = RetryEntryContext(xReconnectParams, cfgMaxAttempts)
    /\ retryPc' = "connect"
    /\ UNCHANGED <<cfgMaxAttempts, xNetworkStatus, retryResult, retryTrace>>
    /\ UNCHANGED <<timeVars, pumpVars>>
    /\ UNCHANGED <<staticVars, dispVars, sessVars>>

\* Plaintext_FreeRTOS_Connect returns outcome
RetryConnect(outcome) ==
    /\ retryPc = "connect"
    /\ Len(ConnectEvents) < MaxConnects
    /\ xNetworkStatus' = outcome
    /\ retryTrace' = Append(retryTrace, Event("connect", outcome, 0))
    /\ retryPc' = IF outcome # PLAINTEXT_TRANSPORT_SUCCESS THEN "backoff" ELSE "test"
    /\ UNCHANGED <<cfgMaxAttempts, xBackoffAlgStatus, xReconnectParams,
                   usNextRetryBackOff, retryResult>>
    /\ UNCHANGED <<timeVars, pumpVars>>
    /\ UNCHANGED <<staticVars, dispVars, sessVars>>

\* after a failed connect: BackoffAlgorithm_GetNextBackoff with uxRand() = rand
RetryBackoff(rand) ==
    /\ retryPc = "backoff"
    /\ LET r == BackoffAlgorithm_GetNextBackoff(xReconnectParams, rand)
       IN  /\ xBackoffAlgStatus' = r.status
           /\ xReconnectParams' = r.ctx
           /\ usNextRetryBackOff' =
                 IF r.status = BackoffAlgorithmSuccess
                 THEN r.delay % Half
                 ELSE usNextRetryBackOff
           /\ retryTrace' = Append(retryTrace, Event("backoff", r.status, r.delay))
           /\ retryPc' = IF RetryShouldSleep(r.status) THEN "sleep" ELSE "test"
    /\ UNCHANGED <<cfgMaxAttempts, xNetworkStatus, retryResult>>
    /\ UNCHANGED <<timeVars, pumpVars>>
    /\ UNCHANGED <<staticVars, dispVars, sessVars>>

\* vTaskDelay( pdMS_TO_TICKS( usNextRetryBackOff ) )
RetrySleep ==
    /\ retryPc = "sleep"
    /\ LET ticks == RetrySleepTicks(usNextRetryBackOff)
       IN  /\ xTickCount' = U32Add(xTickCount, U32FromNat(ticks))
           /\ retryTrace' = Append(retryTrace,
                                   Event("sleep", "slept", ticks * MILLISECONDS_PER_TICK))
    /\ retryPc' = "test"
    /\ UNCHANGED <<cfgMaxAttempts, xNetworkStatus, xBackoffAlgStatus,
                   xReconnectParams, usNextRetryBackOff, retryResult>>
    /\ UNCHANGED <<ulGlobalEntryTimeMs, tickRateHz, timeSamples, pumpVars>>
    /\ UNCHANGED <<staticVars, dispVars, sessVars>>

\* the loop test, and the return of the last network status when it fails
RetryLoopTest ==
    /\ retryPc = "test"
    /\ IF RetryLoopCond(xNetworkStatus, xBackoffAlgStatus)
       THEN /\ retryPc' = "connect"
            /\ UNCHANGED retryResult
       ELSE /\ retryPc' = "return"
            /\ retryResult' = xNetworkStatus
    /\ UNCHANGED <<cfgMaxAttempts, xNetworkStatus, xBackoffAlgStatus,
                   xReconnectParams, usNextRetryBackOff, retryTrace>>
    /\ UNCHANGED <<timeVars, pumpVars>>
    /\ UNCHANGED <<staticVars, dispVars, sessVars>>

----------------------------------------------------------------------------
(* Statics and prvInitializeTopicBuffers.                                  *)

MQTTSubAckSuccessQos0 == "MQTTSubAckSuccessQos0"
MQTTSubAckFailure == "MQTTSubAckFailure"

\* the statics as the loader zeroes them
StaticsZero ==
    /\ xTopicFilterContext =
          [i \in 1 .. mqttexampleTOPIC_COUNT |->
              [pcTopicFilter |-> <<>>, xSubAckStatus |-> MQTTSubAckSuccessQos0]]
    /\ usPublishPacketIdentifier = 0

\* the records prvInitializeTopicBuffers writes: prefix and index as the
\* topic string, the SUBACK status a failure
InitializedTopics ==
    [i \in 1 .. mqttexampleTOPIC_COUNT |->
        [pcTopicFilter |-> <<"mqttexampleTOPIC_PREFIX", i - 1>>,
         xSubAckStatus |-> MQTTSubAckFailure]]

----------------------------------------------------------------------------
(* prvEventCallback and prvMQTTProcessResponse.                            *)

MQTT_PACKET_TYPE_PUBACK == "MQTT_PACKET_TYPE_PUBACK"
MQTT_PACKET_TYPE_PUBREC == "MQTT_PACKET_TYPE_PUBREC"
MQTT_PACKET_TYPE_PUBREL == "MQTT_PACKET_TYPE_PUBREL"
MQTT_PACKET_TYPE_PUBCOMP == "MQTT_PACKET_TYPE_PUBCOMP"
MQTT_PACKET_TYPE_PINGRESP == "MQTT_PACKET_TYPE_PINGRESP"
MQTT_PACKET_TYPE_SUBACK == "MQTT_PACKET_TYPE_SUBACK"
UnknownPacketType == "0xFF"

IdLoggingTypes ==
    {MQTT_PACKET_TYPE_PUBACK, MQTT_PACKET_TYPE_PUBREC,
     MQTT_PACKET_TYPE_PUBREL, MQTT_PACKET_TYPE_PUBCOMP}

\* the types the switch of prvMQTTProcessResponse has no case for
DefaultCaseTypes == {MQTT_PACKET_TYPE_SUBACK, UnknownPacketType}

PacketTypes ==
    IdLoggingTypes \cup {MQTT_PACKET_TYPE_PINGRESP} \cup DefaultCaseTypes

NULL == "NULL"
\* the address of the acknowledgment record the engine lends to the callback
AckInfoSlot == "ACKINFO"

NoAnnotation == [pReasonString |-> NULL, reasonStringLength |-> 0]

IncomingEvent(type, id, slot) ==
    [type |-> type, packetIdentifier |-> id, pNextAckInfo |-> slot]

\* the acknowledgment record after the callback saw an event of this type
CallbackAckInfoNoWrite(type, info) == info
CallbackAckInfo(type, info) ==
    IF type = MQTT_PACKET_TYPE_PUBREC
    THEN [pReasonString |-> "test", reasonStringLength |-> 4]
    ELSE info

\* the slots the callback writes an annotation through
CallbackWrites(type, slot) ==
    IF type = MQTT_PACKET_TYPE_PUBREC THEN {slot} ELSE {}

\* pxDeserializedInfo->pNextAckInfo after the callback
CallbackNextAckInfoKept(type, slot) == AckInfoSlot
CallbackNextAckInfo(type, slot) ==
    IF type = MQTT_PACKET_TYPE_PUBREC THEN slot ELSE NULL

\* the calls of prvMQTTProcessResponse one callback makes
CallbackResponseCallsNotForPubrec(type, id) ==
    IF type = MQTT_PACKET_TYPE_PUBREC
    THEN <<>>
    ELSE <<[type |-> type, usPacketId |-> id]>>
CallbackResponseCalls(type, id) == <<[type |-> type, usPacketId |-> id]>>

\* the packet identifier a log entry prints
LoggedPacketIdOfLastPublish(usPacketId, publishId) == publishId
LoggedPacketId(usPacketId, publishId) == usPacketId

\* the level at which a packet type is logged
ResponseLogLevelPingrespIsError(type) ==
    IF type = MQTT_PACKET_TYPE_PINGRESP THEN "Error"
    ELSE IF type \in IdLoggingTypes THEN "Info" ELSE "Warn"
ResponseLogLevelUnknownIsError(type) ==
    IF type \in IdLoggingTypes THEN "Info"
    ELSE IF type = MQTT_PACKET_TYPE_PINGRESP THEN "Warn" ELSE "Error"
ResponseLogLevel(type) ==
    IF type \in IdLoggingTypes THEN "Info" ELSE "Warn"

\* the log entry prvMQTTProcessResponse writes
ResponseLogEntry(type, usPacketId, publishId) ==
    [level |-> ResponseLogLevel(type),
     case |-> IF type \in IdLoggingTypes \cup {MQTT_PACKET_TYPE_PINGRESP}
              THEN type ELSE "default",
     printed |-> IF type \in IdLoggingTypes
                 THEN LoggedPacketId(usPacketId, publishId)
                 ELSE IF type = MQTT_PACKET_TYPE_PINGRESP THEN "nothing" ELSE type]

\* the topic filter records after prvMQTTProcessResponse
ResponseTopicsGrantsFirst(type, usPacketId, ctx) ==
    [ctx EXCEPT ![1].xSubAckStatus = MQTTSubAckSuccessQos0]
ResponseTopics(type, usPacketId, ctx) == ctx

RECURSIVE LogOf(_, _)
LogOf(calls, publishId) ==
    IF calls = <<>> THEN <<>>
    ELSE <<ResponseLogEntry(Head(calls).type, Head(calls).usPacketId, publishId)>>
             \o LogOf(Tail(calls), publishId)

RECURSIVE TopicsAfter(_, _)
TopicsAfter(calls, ctx) ==
    IF calls = <<>> THEN ctx
    ELSE TopicsAfter(Tail(calls),
                     ResponseTopics(Head(calls).type, Head(calls).usPacketId, ctx))

\* the engine delivers ev: the callback writes or drops the annotation and
\* hands the packet to prvMQTTProcessResponse
EventCallback(ev) ==
    /\ ev.type = MQTT_PACKET_TYPE_PUBREC => ev.pNextAckInfo = AckInfoSlot
    /\ xAckInfo' = CallbackAckInfo(ev.type, xAckInfo)
    /\ pNextAckInfo' = CallbackNextAckInfo(ev.type, ev.pNextAckInfo)
    /\ cbEvents' = Append(cbEvents, ev)
    /\ slotWrites' = slotWrites \cup CallbackWrites(ev.type, ev.pNextAckInfo)
    /\ UNCHANGED cbFault
    /\ LET calls == CallbackResponseCalls(ev.type, ev.packetIdentifier)
       IN  /\ responseCalls' = responseCalls \o calls
           /\ dispLog' = dispLog \o LogOf(calls, usPublishPacketIdentifier)
           /\ xTopicFilterContext' = TopicsAfter(calls, xTopicFilterContext)
    /\ UNCHANGED usPublishPacketIdentifier
    /\ UNCHANGED <<timeVars, pumpVars, retryVars, sessVars>>

\* what a store through a null pointer can do in a build: trap, so that the
\* callback never returns, or go to address 0 and let the callback go on
NullStoreOutcomes == {"fault", "stray"}

\* the engine delivers a PUBREC without an acknowledgment record: lines
\* 787-788 store through the null pNextAckInfo
EventCallbackAbsentSlot(ev, outcome) ==
    /\ ev.type = MQTT_PACKET_TYPE_PUBREC
    /\ ev.pNextAckInfo = NULL
    /\ cbEvents' = Append(cbEvents, ev)
    /\ slotWrites' = slotWrites \cup CallbackWrites(ev.type, ev.pNextAckInfo)
    /\ pNextAckInfo' = CallbackNextAckInfo(ev.type, ev.pNextAckInfo)
    /\ IF outcome = "fault"
       THEN /\ cbFault' = TRUE
            /\ UNCHANGED <<responseCalls, dispLog>>
       ELSE /\ UNCHANGED cbFault
            /\ LET calls == CallbackResponseCalls(ev.type, ev.packetIdentifier)
               IN  /\ responseCalls' = responseCalls \o calls
                   /\ dispLog' = dispLog \o LogOf(calls, usPublishPacketIdentifier)
    /\ UNCHANGED <<xAckInfo, staticVars>>
    /\ UNCHANGED <<timeVars, pumpVars, retryVars, sessVars>>

----------------------------------------------------------------------------
(* prvMQTTDemoTask, prvCreateMQTTConnectionWithBroker and                  *)
(* prvMQTTPublishToTopics: one session.                                    *)

MQTTServerRefused == "MQTTServerRefused"
MQTTSendFailed == "MQTTSendFailed"

\* an entry of the session's history: the operation and the status it returned
Op(op, status) == [op |-> op, status |-> status]

\* configASSERT( cond ): the task goes on to next when cond holds and stops
\* for good otherwise
configASSERT(cond, next) == IF cond THEN next ELSE "halted"

\* a status variable is assigned again: a non-success status still unread in
\* it is lost
Overwritten(lost, holding, held) ==
    IF held # MQTTSuccess THEN lost \cup holding ELSE lost

\* lines 401-408: the entry time is taken and the topic records are filled
SessStart ==
    /\ sessPc = "start"
    /\ ulGlobalEntryTimeMs' = prvGetTimeMs
    /\ xTopicFilterContext' = InitializedTopics
    /\ sessPc' = "wait_net"
    /\ UNCHANGED <<xTickCount, tickRateHz, timeSamples,
                   usPublishPacketIdentifier, sessNetworkStatus,
                   xResult, xMQTTStatus, unread, lostFailures, earlierCalls,
                   sessTrace>>
    /\ UNCHANGED <<pumpVars, retryVars, dispVars>>

NetworkWaits == Len(SelectSeq(sessTrace, LAMBDA e : e.op = "wait"))

\* lines 413-421: xPlatformIsNetworkUp() returns up; a second is slept while
\* the link is down
SessWaitNetwork(up) ==
    /\ sessPc = "wait_net"
    /\ IF up
       THEN /\ sessPc' = "retry1"
            /\ UNCHANGED <<xTickCount, sessTrace>>
       ELSE /\ NetworkWaits < MaxNetworkWaits
            /\ xTickCount' = U32Add(xTickCount, U32FromNat(pdMS_TO_TICKS(NETWORK_WAIT_MS)))
            /\ sessTrace' = Append(sessTrace, Op("wait", "down"))
            /\ UNCHANGED sessPc
    /\ UNCHANGED <<ulGlobalEntryTimeMs, tickRateHz, timeSamples,
                   sessNetworkStatus, xResult, xMQTTStatus,
                   unread, lostFailures, earlierCalls>>
    /\ UNCHANGED <<pumpVars, retryVars, staticVars, dispVars>>

RetryCallSites == {"retry1", "retry2", "retry3"}

InRetry(site) == "in_" \o site

\* where the task goes when the call made at site returned success
AfterRetryStraightToConnect(site) == "connect_real"
AfterRetry(site) ==
    CASE site = "retry1" -> "mqtt_init"
      [] site = "retry2" -> "probe_will"
      [] site = "retry3" -> "connect_real"

\* lines 431, 606, 638: prvConnectToServerWithBackoffRetries is called; its
\* locals lie where the locals of the call before lay
SessCallRetry(site) ==
    /\ sessPc = site
    /\ retryPc' = "idle"
    /\ retryResult' = "none"
    /\ retryTrace' = <<>>
    /\ sessPc' = InRetry(site)
    /\ UNCHANGED <<cfgMaxAttempts, xNetworkStatus, xBackoffAlgStatus,
                   xReconnectParams, usNextRetryBackOff>>
    /\ UNCHANGED <<sessNetworkStatus, xResult, xMQTTStatus, unread,
                   lostFailures, earlierCalls, sessTrace>>
    /\ UNCHANGED <<timeVars, pumpVars, staticVars, dispVars>>

\* lines 431-432, 606-607, 638-639: the call returns and its result is
\* asserted
SessRetryReturn(site) ==
    /\ sessPc = InRetry(site)
    /\ retryPc = "return"
    /\ sessNetworkStatus' = retryResult
    /\ earlierCalls' = Append(earlierCalls, retryTrace)
    /\ sessTrace' = Append(sessTrace, Op("transport_connect", retryResult))
    /\ retryPc' = "off"
    /\ sessPc' = configASSERT(retryResult = PLAINTEXT_TRANSPORT_SUCCESS,
                              AfterRetry(site))
    /\ UNCHANGED <<cfgMaxAttempts, xNetworkStatus, xBackoffAlgStatus,
                   xReconnectParams, usNextRetryBackOff, retryResult, retryTrace>>
    /\ UNCHANGED <<xResult, xMQTTStatus, unread, lostFailures>>
    /\ UNCHANGED <<timeVars, pumpVars, staticVars, dispVars>>

EngineInitSteps == <<"mqtt_init", "init_qos", "init_connect", "probe_bad">>

\* lines 557-573: MQTT_Init, MQTT_InitStatefulQoS and MQTTV5_InitConnect,
\* each returning st and each asserted
SessEngineInit(st) ==
    /\ \E k \in 1 .. 3 :
          /\ sessPc = EngineInitSteps[k]
          /\ sessPc' = configASSERT(st = MQTTSuccess, EngineInitSteps[k + 1])
    /\ xResult' = st
    /\ lostFailures' = Overwritten(lostFailures, unread, xResult)
    /\ unread' = {}
    /\ UNCHANGED <<sessNetworkStatus, xMQTTStatus, earlierCalls, sessTrace>>
    /\ UNCHANGED <<timeVars, pumpVars, retryVars, staticVars, dispVars>>

\* line 596: MQTT_Connect with the bad credentials returns st; nothing reads
\* xResult before line 620 assigns it again
SessProbeBad(st) ==
    /\ sessPc = "probe_bad"
    /\ xResult' = st
    /\ lostFailures' = Overwritten(lostFailures, unread, xResult)
    /\ unread' = {"probe_bad"}
    /\ sessTrace' = Append(sessTrace, Op("probe_bad", st))
    /\ sessPc' = "retry2"
    /\ UNCHANGED <<sessNetworkStatus, xMQTTStatus, earlierCalls>>
    /\ UNCHANGED <<timeVars, pumpVars, retryVars, staticVars, dispVars>>

\* line 620: MQTT_Connect with the will returns st; nothing reads xResult
\* before line 640 assigns it again
SessProbeWill(st) ==
    /\ sessPc = "probe_will"
    /\ xResult' = st
    /\ lostFailures' = Overwritten(lostFailures, unread, xResult)
    /\ unread' = {"probe_will"}
    /\ sessTrace' = Append(sessTrace, Op("probe_will", st))
    /\ sessPc' = "disconnect_probe"
    /\ UNCHANGED <<sessNetworkStatus, xMQTTStatus, earlierCalls>>
    /\ UNCHANGED <<timeVars, pumpVars, retryVars, staticVars, dispVars>>

\* lines 625 and 462: Plaintext_FreeRTOS_Disconnect, its result not taken
SessTransportDisconnect ==
    /\ sessPc \in {"disconnect_probe", "disconnect_transport"}
    /\ sessTrace' = Append(sessTrace, Op("transport_disconnect", "none"))
    /\ sessPc' = IF sessPc = "disconnect_probe" THEN "retry3" ELSE "delay"
    /\ UNCHANGED <<sessNetworkStatus, xResult, xMQTTStatus, unread,
                   lostFailures, earlierCalls>>
    /\ UNCHANGED <<timeVars, pumpVars, retryVars, staticVars, dispVars>>

\* lines 640-645: the real MQTT_Connect returns st, asserted
SessConnect(st) ==
    /\ sessPc = "connect_real"
    /\ xResult' = st
    /\ lostFailures' = Overwritten(lostFailures, unread, xResult)
    /\ unread' = {}
    /\ sessTrace' = Append(sessTrace, Op("connect_real", st))
    /\ sessPc' = configASSERT(st = MQTTSuccess, "publish1")
    /\ UNCHANGED <<sessNetworkStatus, xMQTTStatus, earlierCalls>>
    /\ UNCHANGED <<timeVars, pumpVars, retryVars, staticVars, dispVars>>

PublishSteps == <<"publish1", "publish2", "publish3", "publish4", "call_pump">>

\* MQTT_GetPacketId before the k-th publish: the engine hands out 1, 2, 3;
\* the third publish (QoS 0) takes no new identifier
PublishPacketId(k, current) ==
    CASE k = 1 -> 1
      [] k = 2 -> 2
      [] k = 3 -> current
      [] k = 4 -> 3

\* lines 679-722: one of the four MQTT_Publish calls returns st, asserted
SessPublish(st) ==
    /\ \E k \in 1 .. 4 :
          /\ sessPc = PublishSteps[k]
          /\ usPublishPacketIdentifier' = PublishPacketId(k, usPublishPacketIdentifier)
          /\ sessPc' = configASSERT(st = MQTTSuccess, PublishSteps[k + 1])
    /\ xResult' = st
    /\ lostFailures' = Overwritten(lostFailures, unread, xResult)
    /\ unread' = {}
    /\ sessTrace' = Append(sessTrace, Op("publish", st))
    /\ UNCHANGED <<xTopicFilterContext, sessNetworkStatus, xMQTTStatus, earlierCalls>>
    /\ UNCHANGED <<timeVars, pumpVars, retryVars, dispVars>>

\* line 445: prvProcessLoopWithTimeout is called with the demo's timeout
SessCallPump ==
    /\ sessPc = "call_pump"
    /\ pumpPc' = "idle"
    /\ ulTimeoutMs' = U32FromNat(mqttexamplePROCESS_LOOP_TIMEOUT_MS)
    /\ sessPc' = "in_pump"
    /\ UNCHANGED <<ulCurrentTime, ulMqttProcessLoopTimeoutTime, eMqttStatus,
                   pumpResult, pumpStart, stepStatuses, pumpElapsed, pumpWrapped>>
    /\ UNCHANGED <<sessNetworkStatus, xResult, xMQTTStatus, unread,
                   lostFailures, earlierCalls, sessTrace>>
    /\ UNCHANGED <<timeVars, retryVars, staticVars, dispVars>>

\* line 445: the pump returns into xMQTTStatus; nothing reads it before
\* line 457 assigns it again
SessPumpReturn ==
    /\ sessPc = "in_pump"
    /\ pumpPc = "return"
    /\ xMQTTStatus' = pumpResult
    /\ lostFailures' = Overwritten(lostFailures, unread, xMQTTStatus)
    /\ unread' = {"pump"}
    /\ sessTrace' = Append(sessTrace, Op("pump", pumpResult))
    /\ pumpPc' = "off"
    /\ sessPc' = "mqtt_disconnect"
    /\ UNCHANGED <<ulTimeoutMs, ulCurrentTime, ulMqttProcessLoopTimeoutTime,
                   eMqttStatus, pumpResult, pumpStart, stepStatuses,
                   pumpElapsed, pumpWrapped>>
    /\ UNCHANGED <<sessNetworkStatus, xResult, earlierCalls>>
    /\ UNCHANGED <<timeVars, retryVars, staticVars, dispVars>>

\* lines 457-458: MQTTV5_Disconnect returns st into xMQTTStatus, asserted
SessMQTTDisconnect(st) ==
    /\ sessPc = "mqtt_disconnect"
    /\ xMQTTStatus' = st
    /\ lostFailures' = Overwritten(lostFailures, unread, xMQTTStatus)
    /\ unread' = {}
    /\ sessTrace' = Append(sessTrace, Op("mqtt_disconnect", st))
    /\ sessPc' = configASSERT(st = MQTTSuccess, "disconnect_transport")
    /\ UNCHANGED <<sessNetworkStatus, xResult, earlierCalls>>
    /\ UNCHANGED <<timeVars, pumpVars, retryVars, staticVars, dispVars>>

\* line 469: vTaskDelay between iterations; the task function then ends
SessDelay ==
    /\ sessPc = "delay"
    /\ xTickCount' = U32Add(xTickCount,
          U32FromNat(pdMS_TO_TICKS(mqttexampleDELAY_BETWEEN_DEMO_ITERATIONS_MS)))
    /\ sessPc' = "done"
    /\ UNCHANGED <<ulGlobalEntryTimeMs, tickRateHz, timeSamples,
                   sessNetworkStatus, xResult, xMQTTStatus,
                   unread, lostFailures, earlierCalls, sessTrace>>
    /\ UNCHANGED <<pumpVars, retryVars, staticVars, dispVars>>

\* MQTT_ProcessLoop is running: the only place the engine calls the callback
InProcessLoop ==
    /\ pumpPc = "loop"
    /\ PumpLoopCond(ulCurrentTime, ulMqttProcessLoopTimeoutTime, eMqttStatus)

----------------------------------------------------------------------------
(* Parts of the program that a specification leaves out.                   *)

\* the tick rate of the build, no time read yet
ClockAsConfigured ==
    /\ tickRateHz = configTICK_RATE_HZ
    /\ timeSamples = <<>>

DispatcherIdle ==
    /\ pNextAckInfo = NULL
    /\ xAckInfo = NoAnnotation
    /\ cbEvents = <<>>
    /\ responseCalls = <<>>
    /\ dispLog = <<>>
    /\ slotWrites = {}
    /\ cbFault = FALSE

SessionOff ==
    /\ sessPc = "off"
    /\ sessNetworkStatus = "none"
    /\ xResult = "none"
    /\ xMQTTStatus = "none"
    /\ unread = {}
    /\ lostFailures = {}
    /\ earlierCalls = <<>>
    /\ sessTrace = <<>>

----------------------------------------------------------------------------
(* Specifications of the pump.                                             *)

\* tick counts at which a call may start: low, across the carry between the
\* halves, and in the last ticks before the counter wraps
StartTicks ==
    {U32FromNat(n) : n \in {0, 1, Half - 1}} \cup
    {U32Sub(U32Max, U32FromNat(n)) : n \in 0 .. MaxTimeout}

EntryTimes == {U32FromNat(0), U32FromNat(2)}

Timeouts == {U32FromNat(n) : n \in 0 .. MaxTimeout}

RetryIdle ==
    /\ retryPc = "off"
    /\ cfgMaxAttempts = mqttexampleRETRY_MAX_ATTEMPTS
    /\ xNetworkStatus = "none"
    /\ xBackoffAlgStatus = "none"
    /\ xReconnectParams = BackoffAlgorithm_InitializeParams(0, 0, 0)
    /\ usNextRetryBackOff = 0
    /\ retryResult = "none"
    /\ retryTrace = <<>>

InitPump ==
    /\ xTickCount \in StartTicks
    /\ ulGlobalEntryTimeMs \in EntryTimes
    /\ ClockAsConfigured
    /\ ulTimeoutMs \in Timeouts
    /\ pumpPc = "idle"
    /\ ulCurrentTime = U32FromNat(0)
    /\ ulMqttProcessLoopTimeoutTime = U32FromNat(0)
    /\ eMqttStatus = MQTTSuccess
    /\ pumpResult = "none"
    /\ pumpStart = U32FromNat(0)
    /\ stepStatuses = <<>>
    /\ pumpElapsed = 0
    /\ pumpWrapped = FALSE
    /\ RetryIdle
    /\ StaticsZero
    /\ DispatcherIdle
    /\ SessionOff

NextPump ==
    \/ PumpEnter
    \/ \E st \in StepStatuses, d \in 0 .. MaxAdvance : PumpStep(st, d)
    \/ PumpReturn

SpecPump == InitPump /\ [][NextPump]_vars

\* the time source keeps advancing: every MQTT_ProcessLoop call takes a tick
\* or more, and the task is scheduled
NextPumpAdvancing ==
    \/ PumpEnter
    \/ \E st \in StepStatuses, d \in 1 .. MaxAdvance : PumpStep(st, d)
    \/ PumpReturn

SpecPumpAdvancing ==
    InitPump /\ [][NextPumpAdvancing]_vars /\ WF_vars(NextPumpAdvancing)

----------------------------------------------------------------------------
(* Specifications of the connect loop.                                     *)

PumpOff ==
    /\ pumpPc = "off"
    /\ ulTimeoutMs = U32FromNat(0)
    /\ ulCurrentTime = U32FromNat(0)
    /\ ulMqttProcessLoopTimeoutTime = U32FromNat(0)
    /\ eMqttStatus = MQTTSuccess
    /\ pumpResult = "none"
    /\ pumpStart = U32FromNat(0)
    /\ stepStatuses = <<>>
    /\ pumpElapsed = 0
    /\ pumpWrapped = FALSE

RetryStart ==
    /\ retryPc = "idle"
    /\ xNetworkStatus = "none"
    /\ xBackoffAlgStatus = "none"
    /\ xReconnectParams = BackoffAlgorithm_InitializeParams(0, 0, 0)
    /\ usNextRetryBackOff = 0
    /\ retryResult = "none"
    /\ retryTrace = <<>>
    /\ xTickCount = U32FromNat(0)
    /\ ulGlobalEntryTimeMs = U32FromNat(0)
    /\ ClockAsConfigured
    /\ PumpOff
    /\ StaticsZero
    /\ DispatcherIdle
    /\ SessionOff

\* the configuration of the source
InitRetry ==
    /\ cfgMaxAttempts = mqttexampleRETRY_MAX_ATTEMPTS
    /\ RetryStart

\* the attempt maximum configured otherwise, zero included
InitRetryCfg ==
    /\ cfgMaxAttempts \in 0 .. MaxAttemptsCfg
    /\ RetryStart

NextRetry ==
    \/ RetryEnter
    \/ \E outcome \in ConnectOutcomes : RetryConnect(outcome)
    \/ \E rand \in RandValues : RetryBackoff(rand)
    \/ RetrySleep
    \/ RetryLoopTest

SpecRetry == InitRetry /\ [][NextRetry]_vars

\* the task is scheduled: a transport connect returns, a sleep ends
SpecRetryFair == InitRetry /\ [][NextRetry]_vars /\ WF_vars(NextRetry)

SpecRetryCfg == InitRetryCfg /\ [][NextRetry]_vars

----------------------------------------------------------------------------
(* Specification of the time source on its own.                            *)

\* tick rates of a build: below, at and above one tick per millisecond
TickRates == {100, 250, 1000, 2000}

InitTime ==
    /\ xTickCount \in StartTicks
    /\ ulGlobalEntryTimeMs \in EntryTimes
    /\ tickRateHz \in TickRates
    /\ timeSamples = <<>>
    /\ PumpOff
    /\ RetryIdle
    /\ StaticsZero
    /\ DispatcherIdle
    /\ SessionOff

NextTime ==
    \E d \in 0 .. MaxAdvance : Len(timeSamples) < MaxSamples /\ TimeRead(d)

SpecTime == InitTime /\ [][NextTime]_vars

----------------------------------------------------------------------------
(* Specification of the event callback on its own.                         *)

PacketIds == 1 .. MaxPacketId

\* events the engine delivers: every PUBREC comes with the acknowledgment
\* record to annotate, a PUBACK with or without one, a PINGRESP carries no
\* packet identifier
Events ==
    {IncomingEvent(t, id, AckInfoSlot) : t \in PacketTypes \ {MQTT_PACKET_TYPE_PINGRESP},
                                         id \in PacketIds}
    \cup {IncomingEvent(MQTT_PACKET_TYPE_PUBACK, id, NULL) : id \in PacketIds}
    \cup {IncomingEvent(MQTT_PACKET_TYPE_PINGRESP, 0, AckInfoSlot)}

InitDispatch ==
    /\ xTopicFilterContext = InitializedTopics
    /\ usPublishPacketIdentifier \in PacketIds
    /\ DispatcherIdle
    /\ SessionOff
    /\ PumpOff
    /\ RetryIdle
    /\ xTickCount = U32FromNat(0)
    /\ ulGlobalEntryTimeMs = U32FromNat(0)
    /\ ClockAsConfigured

NextDispatch ==
    \E ev \in Events : Len(cbEvents) < MaxEvents /\ EventCallback(ev)

SpecDispatch == InitDispatch /\ [][NextDispatch]_vars

\* the callback under an engine that may also deliver a PUBREC without an
\* acknowledgment record; nothing is delivered after a fault
AbsentSlotEvents ==
    {IncomingEvent(MQTT_PACKET_TYPE_PUBREC, id, NULL) : id \in PacketIds}

NextDispatchAnySlot ==
    \/ \E ev \in Events :
          ~cbFault /\ Len(cbEvents) < MaxEvents /\ EventCallback(ev)
    \/ \E ev \in AbsentSlotEvents, outcome \in NullStoreOutcomes :
          ~cbFault /\ Len(cbEvents) < MaxEvents /\ EventCallbackAbsentSlot(ev, outcome)

SpecDispatchAnySlot == InitDispatch /\ [][NextDispatchAnySlot]_vars

----------------------------------------------------------------------------
(* Specifications of a session.                                            *)

InitSession ==
    /\ xTickCount = U32FromNat(0)
    /\ ulGlobalEntryTimeMs = U32FromNat(0)
    /\ ClockAsConfigured
    /\ PumpOff
    /\ RetryIdle
    /\ StaticsZero
    /\ DispatcherIdle
    /\ sessPc = "start"
    /\ sessNetworkStatus = "none"
    /\ xResult = "none"
    /\ xMQTTStatus = "none"
    /\ unread = {}
    /\ lostFailures = {}
    /\ earlierCalls = <<>>
    /\ sessTrace = <<>>

\* the statuses drawn for the engine's calls
ConnectStatuses == {MQTTSuccess, MQTTServerRefused}
SendStatuses == {MQTTSuccess, MQTTSendFailed}
InitStatuses == {MQTTSuccess, "MQTTBadParameter"}

\* the steps of the task itself
NextTask ==
    \/ SessStart
    \/ \E up \in BOOLEAN : SessWaitNetwork(up)
    \/ \E site \in RetryCallSites : SessCallRetry(site)
    \/ \E site \in RetryCallSites : SessRetryReturn(site)
    \/ \E st \in InitStatuses : SessEngineInit(st)
    \/ \E st \in ConnectStatuses : SessProbeBad(st)
    \/ \E st \in ConnectStatuses : SessProbeWill(st)
    \/ SessTransportDisconnect
    \/ \E st \in ConnectStatuses : SessConnect(st)
    \/ \E st \in SendStatuses : SessPublish(st)
    \/ SessCallPump
    \/ SessPumpReturn
    \/ \E st \in SendStatuses : SessMQTTDisconnect(st)
    \/ SessDelay

SessionRand == {5000}
SessionConnectOutcomes == {PLAINTEXT_TRANSPORT_SUCCESS, "PLAINTEXT_TRANSPORT_CONNECT_FAILURE"}

FailedConnects(trace) ==
    Len(SelectSeq(trace, LAMBDA e : e.ev = "connect" /\ e.status # PLAINTEXT_TRANSPORT_SUCCESS))

RECURSIVE FailedConnectsOfCalls(_)
FailedConnectsOfCalls(calls) ==
    IF calls = <<>> THEN 0
    ELSE FailedConnects(Head(calls)) + FailedConnectsOfCalls(Tail(calls))

SessionFailures == FailedConnectsOfCalls(earlierCalls) + FailedConnects(retryTrace)

\* a session on a network that may fail any transport connect, with a
\* broker that sends at most one PUBACK and an engine that either works
\* through the whole timeout or fails
QuietSteps == {MQTTSuccess, "MQTTRecvFailed"}
QuietStepTicks == {pdMS_TO_TICKS(mqttexamplePROCESS_LOOP_TIMEOUT_MS)}
QuietEvents == {IncomingEvent(MQTT_PACKET_TYPE_PUBACK, 1, AckInfoSlot)}

NextSessionNetwork ==
    \/ NextTask
    \/ RetryEnter
    \/ \E outcome \in SessionConnectOutcomes : RetryConnect(outcome)
    \/ \E rand \in SessionRand : RetryBackoff(rand)
    \/ RetrySleep
    \/ RetryLoopTest
    \/ PumpEnter
    \/ \E st \in QuietSteps, d \in QuietStepTicks : PumpStep(st, d)
    \/ PumpReturn
    \/ \E ev \in QuietEvents :
          InProcessLoop /\ cbEvents = <<>> /\ EventCallback(ev)

SpecSessionNetwork == InitSession /\ [][NextSessionNetwork]_vars

\* the task is scheduled and every call it makes returns
SpecSessionNetworkFair ==
    InitSession /\ [][NextSessionNetwork]_vars /\ WF_vars(NextSessionNetwork)

\* a session with a reachable broker (few transport connects fail) that
\* sends events of every kind while the pump runs
SessionSteps == {MQTTSuccess, MQTTNeedMoreBytes, "MQTTRecvFailed"}
SessionStepTicks ==
    {pdMS_TO_TICKS(mqttexamplePROCESS_LOOP_TIMEOUT_MS) \div 2,
     pdMS_TO_TICKS(mqttexamplePROCESS_LOOP_TIMEOUT_MS)}
SessionEvents ==
    {IncomingEvent(t, 1, AckInfoSlot) :
        t \in {MQTT_PACKET_TYPE_PUBREC, MQTT_PACKET_TYPE_SUBACK,
               UnknownPacketType}}
    \cup {IncomingEvent(MQTT_PACKET_TYPE_PINGRESP, 0, AckInfoSlot)}

NextSession ==
    \/ NextTask
    \/ RetryEnter
    \/ \E outcome \in SessionConnectOutcomes :
          /\ outcome # PLAINTEXT_TRANSPORT_SUCCESS =>
                SessionFailures < MaxSessionFailures
          /\ RetryConnect(outcome)
    \/ \E rand \in SessionRand : RetryBackoff(rand)
    \/ RetrySleep
    \/ RetryLoopTest
    \/ PumpEnter
    \/ \E st \in SessionSteps, d \in SessionStepTicks : PumpStep(st, d)
    \/ PumpReturn
    \/ \E ev \in SessionEvents :
          InProcessLoop /\ Len(cbEvents) < MaxSessionEvents /\ EventCallback(ev)

SpecSession == InitSession /\ [][NextSession]_vars

----------------------------------------------------------------------------
(* Properties of the pump.                                                 *)

U32ToNat(a) == a[1] * Half + a[2]

LastStatus == stepStatuses[Len(stepStatuses)]

OnlyTransient ==
    \A i \in 1 .. Len(stepStatuses) :
        stepStatuses[i] \in {MQTTSuccess, MQTTNeedMoreBytes}

OnlyNeedMoreBytes ==
    \A i \in 1 .. Len(stepStatuses) : stepStatuses[i] = MQTTNeedMoreBytes

\* start time plus timeout does not exceed 2^32 - 1
DeadlineFits == ~U32Lt(U32Add(pumpStart, ulTimeoutMs), pumpStart)

\* C1: a step status other than Success or NeedMoreBytes is the last one:
\* after it no further step can be invoked, the pump can only return, and
\* it returns exactly that status (so a fatal first step is the only step).
C1_FatalStopsPump ==
    /\ \A i \in 1 .. Len(stepStatuses) :
           stepStatuses[i] \in FatalStatuses => i = Len(stepStatuses)
    /\ (pumpPc = "loop" /\ stepStatuses # <<>> /\ LastStatus \in FatalStatuses)
           => /\ ENABLED PumpReturn
              /\ ~ENABLED (\E st \in StepStatuses, d \in 0 .. MaxAdvance : PumpStep(st, d))
    /\ (pumpPc = "return" /\ stepStatuses # <<>> /\ LastStatus \in FatalStatuses)
           => pumpResult = LastStatus

\* the first step was fatal while the budget had not run out, and the pump
\* returned that status after this one step
C1_Witness ==
    /\ pumpPc = "return"
    /\ Len(stepStatuses) = 1
    /\ stepStatuses[1] \in FatalStatuses
    /\ pumpResult = stepStatuses[1]
    /\ pumpElapsed < U32ToNat(ulTimeoutMs)

C4_WrapTolerant ==
    ( /\ pumpPc = "return"
      /\ U32ToNat(ulTimeoutMs) > 0
      /\ OnlyTransient )
    => ~U32Lt(U32Sub(ulCurrentTime, pumpStart), ulTimeoutMs)

\* ticks that passed and milliseconds the returned value moved between two
\* reads that follow each other
TicksBetween(i) == U32Sub(timeSamples[i + 1].tick, timeSamples[i].tick)
MsBetween(i) == U32Sub(timeSamples[i + 1].ms, timeSamples[i].ms)

\* C22 as stated: for every tick rate, the value prvGetTimeMs returns is
\* (tick count * milliseconds per tick - entry time) modulo 2^32, does not
\* go back between two reads except by wrapping, and has moved forward
\* whenever the tick count has.  At tick rates above 1000 Hz it stands still.
C22_TimeAdvancesWithTicks ==
    /\ \A i \in 1 .. Len(timeSamples) :
          timeSamples[i].ms =
             U32Sub(U32Mul(timeSamples[i].tick, MILLISECONDS_PER_SECOND \div tickRateHz),
                    ulGlobalEntryTimeMs)
    /\ \A i \in 1 .. Len(timeSamples) - 1 :
          /\ MsBetween(i)[1] < Half \div 2
          /\ TicksBetween(i) # U32FromNat(0) => MsBetween(i) # U32FromNat(0)

\* C27 as stated: whatever the start time, the timeout T and the time each
\* step takes, also when the time source wraps past 2^32 during the loop, no
\* MQTT_ProcessLoop call is made once T or more milliseconds have passed
\* since the pump started.  The code goes on stepping after a sample wrapped.
C27_NoStepAfterBudget ==
    (pumpPc = "loop" /\ pumpElapsed >= U32ToNat(ulTimeoutMs)) =>
        ~PumpLoopCond(ulCurrentTime, ulMqttProcessLoopTimeoutTime, eMqttStatus)

\* this step is a call of MQTT_ProcessLoop
Stepping == Len(stepStatuses') = Len(stepStatuses) + 1

\* C21: MQTT_ProcessLoop is called only while the last time sample is
\* strictly below the deadline and the last status is Success or
\* NeedMoreBytes; the time is sampled again after every call; with timeout 0
\* no call is made and the pump returns Success.
C21_StepsOnlyBelowDeadline ==
    /\ [][Stepping =>
             /\ U32Lt(ulCurrentTime, ulMqttProcessLoopTimeoutTime)
             /\ eMqttStatus \in {MQTTSuccess, MQTTNeedMoreBytes}
             /\ ulCurrentTime' = GetTimeMs(xTickCount', ulGlobalEntryTimeMs')]_vars
    /\ [](pumpPc \in {"loop", "return"} =>
             /\ ulCurrentTime = prvGetTimeMs
             /\ ulMqttProcessLoopTimeoutTime = U32Add(pumpStart, ulTimeoutMs))
    /\ [](U32ToNat(ulTimeoutMs) = 0 =>
             /\ stepStatuses = <<>>
             /\ pumpPc = "return" => pumpResult = MQTTSuccess)

\* a call with timeout 0 has returned Success without a step, while a call
\* whose deadline does not wrap would have stepped with any timeout above 0
C21_Witness ==
    /\ pumpPc = "return"
    /\ U32ToNat(ulTimeoutMs) = 0
    /\ stepStatuses = <<>>
    /\ pumpResult = MQTTSuccess
    /\ ulCurrentTime = ulMqttProcessLoopTimeoutTime

----------------------------------------------------------------------------
(* Properties of the connect loop.                                         *)

RECURSIVE SumMs(_)
SumMs(events) ==
    IF events = <<>> THEN 0 ELSE Head(events).ms + SumMs(Tail(events))

Failed(e) == e.status # PLAINTEXT_TRANSPORT_SUCCESS

AllConnectsFailed ==
    \A i \in 1 .. Len(ConnectEvents) : Failed(ConnectEvents[i])

\* C5 as stated: within one call the number of transport connect attempts
\* never exceeds the configured maximum attempt count
\* (mqttexampleRETRY_MAX_ATTEMPTS = 5).
C5_ConnectsWithinMaxAttempts ==
    Len(ConnectEvents) <= mqttexampleRETRY_MAX_ATTEMPTS

\* C5 as amended: within one call there is the first connect attempt and
\* at most mqttexampleRETRY_MAX_ATTEMPTS retries of it, so never more than
\* mqttexampleRETRY_MAX_ATTEMPTS + 1 connect attempts; the attempt counter
\* of the backoff context never exceeds the maximum.
C5_ConnectsWithinMaxRetries ==
    /\ Len(ConnectEvents) <= mqttexampleRETRY_MAX_ATTEMPTS + 1
    /\ Len(SleepEvents) <= mqttexampleRETRY_MAX_ATTEMPTS
    /\ retryPc # "idle" => xReconnectParams.attemptsDone <= mqttexampleRETRY_MAX_ATTEMPTS

\* a call that returned after the first attempt and all five retries failed
C5_Witness ==
    /\ retryPc = "return"
    /\ Len(ConnectEvents) = mqttexampleRETRY_MAX_ATTEMPTS + 1
    /\ AllConnectsFailed

\* C6: when every connect attempt fails the call returns, what it returns
\* is the non-success status of its last connect attempt, and nothing is
\* slept once the backoff algorithm has reported the retries exhausted.
C6_ExhaustionTerminatesAndIsReported ==
    /\ <>(retryPc = "return")
    /\ [](\A i \in 1 .. Len(retryTrace) :
             retryTrace[i].status = BackoffAlgorithmRetriesExhausted
                 => /\ i = Len(retryTrace)
                    /\ retryPc \in {"test", "return"})
    /\ []((retryPc = "return" /\ AllConnectsFailed)
             => /\ retryResult # PLAINTEXT_TRANSPORT_SUCCESS
                /\ retryResult = ConnectEvents[Len(ConnectEvents)].status
                /\ retryTrace[Len(retryTrace)].status = BackoffAlgorithmRetriesExhausted)

\* every attempt failed, the last with another status than the first, and
\* the call returned the last one
C6_Witness ==
    /\ retryPc = "return"
    /\ AllConnectsFailed
    /\ ConnectEvents[1].status # ConnectEvents[Len(ConnectEvents)].status
    /\ retryResult = ConnectEvents[Len(ConnectEvents)].status

FailedTwiceThenConnected ==
    /\ Len(ConnectEvents) >= 3
    /\ Failed(ConnectEvents[1])
    /\ Failed(ConnectEvents[2])
    /\ ~Failed(ConnectEvents[3])

\* C7: when the first two connects fail and the third succeeds, the call
\* returns success after exactly 3 connect attempts and exactly 2 sleeps,
\* each sleep as long as the delay the backoff algorithm computed for that
\* failure, the total sleep being the sum of the two delays.
C7_TwoFailuresThenSuccess ==
    FailedTwiceThenConnected =>
        /\ Len(ConnectEvents) = 3
        /\ Len(SleepEvents) = 2
        /\ Len(BackoffEvents) = 2
        /\ \A i \in 1 .. 2 : SleepEvents[i].ms = BackoffEvents[i].ms
        /\ SumMs(SleepEvents) = BackoffEvents[1].ms + BackoffEvents[2].ms
        /\ U32ToNat(xTickCount) * MILLISECONDS_PER_TICK = SumMs(BackoffEvents)
        /\ retryPc \in {"test", "return"}
        /\ retryPc = "return" => retryResult = PLAINTEXT_TRANSPORT_SUCCESS

\* two failures with different non-zero delays, then success, returned
C7_Witness ==
    /\ retryPc = "return"
    /\ FailedTwiceThenConnected
    /\ retryResult = PLAINTEXT_TRANSPORT_SUCCESS
    /\ BackoffEvents[1].ms > 0
    /\ BackoffEvents[2].ms > mqttexampleRETRY_BACKOFF_BASE_MS

\* C8: a successful connect ends the call at once: it is the last thing the
\* call does before it returns (no backoff computed, no sleep, no further
\* connect), and the call returns success exactly when its last connect
\* attempt succeeded.
C8_SuccessReturnsAtOnce ==
    /\ \A i \in 1 .. Len(retryTrace) :
           (retryTrace[i].ev = "connect" /\ ~Failed(retryTrace[i]))
               => /\ i = Len(retryTrace)
                  /\ retryPc \in {"test", "return"}
    /\ retryPc = "return" =>
           (retryResult = PLAINTEXT_TRANSPORT_SUCCESS
               <=> ~Failed(ConnectEvents[Len(ConnectEvents)]))

\* a call that connected at its first attempt and returned success
C8_Witness ==
    /\ retryPc = "return"
    /\ retryTrace = <<Event("connect", PLAINTEXT_TRANSPORT_SUCCESS, 0)>>
    /\ retryResult = PLAINTEXT_TRANSPORT_SUCCESS

\* C9: the delay slept after a failure at attempt count a (a = 0 for the
\* first failure) lies in [0, min(500 * 2^a, 5000)], hence in
\* [0, min(500 * 2^(a+1), 5000)] for the failures counted from one, and
\* fits the 16-bit variable that holds it: what is slept is what was
\* computed.
C9_DelayWithinJitterBound ==
    /\ usNextRetryBackOff \in 0 .. 65535
    /\ \A i \in 1 .. Len(SleepEvents) :
           /\ SleepEvents[i].ms >= 0
           /\ SleepEvents[i].ms <= Min(500 * 2 ^ (i - 1), 5000)
           /\ SleepEvents[i].ms = BackoffEvents[i].ms
    /\ \A i \in 1 .. Len(BackoffEvents) :
           BackoffEvents[i].ms \in 0 .. 65535

\* five sleeps, the first of the full first bound, the last of the maximum
C9_Witness ==
    /\ Len(SleepEvents) = mqttexampleRETRY_MAX_ATTEMPTS
    /\ SleepEvents[1].ms = 500
    /\ SleepEvents[Len(SleepEvents)].ms = 5000

\* C10: configured with a maximum of zero attempts, a call whose connect
\* fails makes no second connect, sleeps nothing and returns the failure.
C10_ZeroAttemptsFailsFast ==
    (cfgMaxAttempts = 0 /\ ConnectEvents # <<>> /\ Failed(ConnectEvents[1]))
        => /\ Len(ConnectEvents) = 1
           /\ SleepEvents = <<>>
           /\ retryPc \in {"backoff", "test", "return"}
           /\ retryPc = "return" => retryResult = ConnectEvents[1].status

\* with a maximum of zero the first connect failed and the call returned
C10_Witness ==
    /\ cfgMaxAttempts = 0
    /\ retryPc = "return"
    /\ Len(ConnectEvents) = 1
    /\ Failed(ConnectEvents[1])
    /\ retryResult = ConnectEvents[1].status

\* every sleep lies between two connects: a connect came just before its
\* backoff, and what follows a sleep is a connect
SleepsOnlyBetweenConnects ==
    \A i \in 1 .. Len(retryTrace) :
        retryTrace[i].ev = "sleep" =>
            /\ i >= 3
            /\ retryTrace[i - 1].ev = "backoff"
            /\ retryTrace[i - 2].ev = "connect"
            /\ i < Len(retryTrace) => retryTrace[i + 1].ev = "connect"

\* C23: at every return of prvConnectToServerWithBackoffRetries, by success
\* or by exhaustion, the connects made in the call are one more than the
\* sleeps; no sleep comes before the first connect or after the last.
C23_ConnectsAreSleepsPlusOne ==
    /\ SleepsOnlyBetweenConnects
    /\ retryTrace # <<>> => retryTrace[1].ev = "connect"
    /\ Len(SleepEvents) <= Len(ConnectEvents)
    /\ retryPc = "return" =>
          /\ Len(ConnectEvents) = Len(SleepEvents) + 1
          /\ retryTrace[Len(retryTrace)].ev # "sleep"

C23_Witness ==
    /\ retryPc = "return"
    /\ Failed([status |-> retryResult])
    /\ Len(ConnectEvents) = mqttexampleRETRY_MAX_ATTEMPTS + 1
    /\ Len(SleepEvents) = mqttexampleRETRY_MAX_ATTEMPTS

----------------------------------------------------------------------------
(* Properties of the event callback.                                       *)

LastEvent == cbEvents[Len(cbEvents)]

TestAnnotation == [pReasonString |-> "test", reasonStringLength |-> 4]

\* the reason annotation an acknowledgment built from the callback's output
\* carries: none when the callback handed back no acknowledgment record
NextAnnotation == IF pNextAckInfo = NULL THEN NoAnnotation ELSE xAckInfo

\* C14: after prvEventCallback handled a PUBREC the outgoing acknowledgment
\* carries the reason string "test" of length 4; after it handled a PUBACK
\* the annotation slot is empty.
C14_PubrecAnnotatesPubackClears ==
    cbEvents # <<>> =>
        /\ LastEvent.type = MQTT_PACKET_TYPE_PUBREC =>
              /\ pNextAckInfo = AckInfoSlot
              /\ NextAnnotation = TestAnnotation
        /\ LastEvent.type = MQTT_PACKET_TYPE_PUBACK =>
              /\ pNextAckInfo = NULL
              /\ NextAnnotation = NoAnnotation

C14_Witness ==
    /\ Len(cbEvents) = 2
    /\ cbEvents[1] = IncomingEvent(MQTT_PACKET_TYPE_PUBACK, 1, AckInfoSlot)
    /\ cbEvents[2].type = MQTT_PACKET_TYPE_PUBREC
    /\ NextAnnotation.pReasonString = "test"
    /\ NextAnnotation.reasonStringLength = 4

\* C15: whatever was dispatched before, the annotation of the next
\* acknowledgment is non-empty only if the last dispatched event was a
\* PUBREC; an event of any other type after a PUBREC leaves none behind.
C15_NoStaleAnnotation ==
    /\ NextAnnotation # NoAnnotation =>
          cbEvents # <<>> /\ LastEvent.type = MQTT_PACKET_TYPE_PUBREC
    /\ (cbEvents # <<>> /\ LastEvent.type # MQTT_PACKET_TYPE_PUBREC) =>
          pNextAckInfo = NULL

C15_Witness ==
    /\ Len(cbEvents) = 3
    /\ cbEvents[2].type = MQTT_PACKET_TYPE_PUBREC
    /\ cbEvents[3].type = MQTT_PACKET_TYPE_PINGRESP
    /\ xAckInfo = TestAnnotation
    /\ NextAnnotation = NoAnnotation

\* the log entry of the i-th dispatch is what its own event asks for
OwnLogEntry(i) ==
    LET ev == cbEvents[i]
    IN  /\ ev.type \in IdLoggingTypes =>
              dispLog[i] = [level |-> "Info", case |-> ev.type,
                            printed |-> ev.packetIdentifier]
        /\ ev.type = MQTT_PACKET_TYPE_PINGRESP =>
              dispLog[i] = [level |-> "Warn", case |-> ev.type,
                            printed |-> "nothing"]
        /\ ev.type \in DefaultCaseTypes =>
              dispLog[i] = [level |-> "Warn", case |-> "default",
                            printed |-> ev.type]

\* C17: the dispatcher keeps no state between calls: every dispatch writes
\* one log entry fixed by its own event alone (a PUBACK's entry carries that
\* PUBACK's packet identifier), whatever was dispatched before and in
\* whichever order, and no dispatch writes a module-level variable.
C17_DispatchIsStateless ==
    /\ [](/\ Len(dispLog) = Len(cbEvents)
          /\ \A i \in 1 .. Len(cbEvents) : OwnLogEntry(i))
    /\ [][/\ usPublishPacketIdentifier' = usPublishPacketIdentifier
          /\ xTopicFilterContext' = xTopicFilterContext]_vars

C17_Witness ==
    /\ Len(cbEvents) = 3
    /\ cbEvents[1].type = MQTT_PACKET_TYPE_PUBREC
    /\ cbEvents[2] = IncomingEvent(MQTT_PACKET_TYPE_PUBACK, 2, AckInfoSlot)
    /\ cbEvents[3] = IncomingEvent(MQTT_PACKET_TYPE_PUBACK, 1, AckInfoSlot)
    /\ usPublishPacketIdentifier = 1
    /\ dispLog[2].printed = 2
    /\ dispLog[3].printed = 1

\* C18: every callback invocation makes exactly one call of
\* prvMQTTProcessResponse, with the packet type and packet identifier of its
\* event, for PUBREC as for any other type; nothing of the event stays in
\* the program's variables after the call.
C18_ClassifiedExactlyOnce ==
    /\ [](/\ Len(responseCalls) = Len(cbEvents)
          /\ \A i \in 1 .. Len(cbEvents) :
                responseCalls[i] = [type |-> cbEvents[i].type,
                                    usPacketId |-> cbEvents[i].packetIdentifier])
    /\ [][cbEvents' # cbEvents => UNCHANGED staticVars]_vars

C18_Witness ==
    /\ Len(cbEvents) = 2
    /\ Len(responseCalls) = 2
    /\ cbEvents[1].type = MQTT_PACKET_TYPE_PUBREC
    /\ cbEvents[2].type = UnknownPacketType
    /\ responseCalls[1] = [type |-> MQTT_PACKET_TYPE_PUBREC, usPacketId |-> 2]
    /\ responseCalls[2] = [type |-> UnknownPacketType, usPacketId |-> 1]

\* C26 as stated: whatever event the engine delivers, a PUBREC without an
\* acknowledgment record included, the callback writes the reason annotation
\* only through a slot that is present and comes to no harm.  The code
\* stores through the null slot.
C26_WritesOnlyThroughPresentSlot ==
    /\ NULL \notin slotWrites
    /\ ~cbFault

----------------------------------------------------------------------------
(* Properties of a session.                                                *)

ConnectsOf(trace) == SelectSeq(trace, LAMBDA e : e.ev = "connect")
BackoffsOf(trace) == SelectSeq(trace, LAMBDA e : e.ev = "backoff")

\* the call made no more connects than a fresh budget allows, and its k-th
\* delay is within the bound of a context that had seen k - 1 failures
CallWithinFreshBudget(trace) ==
    /\ Len(ConnectsOf(trace)) <= mqttexampleRETRY_MAX_ATTEMPTS + 1
    /\ \A k \in 1 .. Len(BackoffsOf(trace)) :
          BackoffsOf(trace)[k].status = BackoffAlgorithmSuccess =>
             BackoffsOf(trace)[k].ms <=
                Min(mqttexampleRETRY_BACKOFF_BASE_MS * 2 ^ (k - 1),
                    mqttexampleRETRY_MAX_BACKOFF_DELAY_MS)

\* a call that gave up had the whole budget: the first connect and every retry
GaveUpAfterFullBudget(trace) ==
    (trace # <<>> /\ Failed(trace[Len(trace)])) =>
        /\ Len(ConnectsOf(trace)) = mqttexampleRETRY_MAX_ATTEMPTS + 1
        /\ Len(BackoffsOf(trace)) = mqttexampleRETRY_MAX_ATTEMPTS + 1

RetryJustEntered == retryPc = "connect" /\ retryTrace = <<>>

\* C11: every call of prvConnectToServerWithBackoffRetries in a session
\* starts with attempt count zero and the whole attempt budget, and makes its
\* connects and takes its delays within the bounds of a first call, however
\* many failures the calls before it saw.
C11_NoRetryStateAcrossCalls ==
    /\ RetryJustEntered =>
          /\ xReconnectParams.attemptsDone = 0
          /\ xReconnectParams.maxRetryAttempts = mqttexampleRETRY_MAX_ATTEMPTS
          /\ xBackoffAlgStatus = BackoffAlgorithmSuccess
    /\ CallWithinFreshBudget(retryTrace)
    /\ \A i \in 1 .. Len(earlierCalls) :
          /\ CallWithinFreshBudget(earlierCalls[i])
          /\ GaveUpAfterFullBudget(earlierCalls[i])

C11_Witness ==
    /\ Len(earlierCalls) = 2
    /\ FailedConnects(earlierCalls[1]) = mqttexampleRETRY_MAX_ATTEMPTS
    /\ ~Failed(earlierCalls[1][Len(earlierCalls[1])])
    /\ FailedConnects(earlierCalls[2]) = mqttexampleRETRY_MAX_ATTEMPTS + 1
    /\ sessPc = "halted"

\* the operations of the session so far, link polls left out
SessionOps == SelectSeq(sessTrace, LAMBDA e : e.op # "wait")

\* the place of an operation in the order connect, publish, pump, disconnect
OpRank(op) ==
    CASE op = "transport_connect" -> 1
      [] op = "probe_bad" -> 2
      [] op = "probe_will" -> 3
      [] op = "connect_real" -> 4
      [] op = "publish" -> 5
      [] op = "pump" -> 6
      [] op \in {"mqtt_disconnect", "transport_disconnect"} -> 7

\* the order in which the task performs its operations
SessionOrder ==
    <<"transport_connect", "probe_bad", "transport_connect", "probe_will",
      "transport_disconnect", "transport_connect", "connect_real",
      "publish", "publish", "publish", "publish", "pump",
      "mqtt_disconnect", "transport_disconnect">>

\* the last transport connect and the real protocol connect both succeeded
\* before the first publish or pump call
ConnectedBeforeTraffic ==
    \A i \in 1 .. Len(SessionOps) :
        SessionOps[i].op \in {"publish", "pump"} =>
            \E j \in 2 .. i - 1 :
                /\ SessionOps[j] = Op("connect_real", MQTTSuccess)
                /\ SessionOps[j - 1] = Op("transport_connect", PLAINTEXT_TRANSPORT_SUCCESS)

C13_NoFailureLost == lostFailures = {}

\* this step is the dispatch of an event whose type is in types
Dispatching(types) ==
    /\ Len(cbEvents') = Len(cbEvents) + 1
    /\ cbEvents'[Len(cbEvents')].type \in types

Dispatched(types) == {i \in 1 .. Len(cbEvents) : cbEvents[i].type \in types}

\* C16: the dispatch of an event of an unknown or unsupported packet type
\* writes a warning and nothing else: no error is logged, no topic filter
\* record changes, and the pump's status, the pump call and the session go
\* on as they were.
C16_UnknownTypeOnlyWarns ==
    /\ [](\A i \in Dispatched(DefaultCaseTypes) :
             /\ i <= Len(dispLog)
             /\ dispLog[i].level = "Warn"
             /\ dispLog[i].case = "default")
    /\ [][Dispatching(DefaultCaseTypes) =>
             /\ Len(dispLog') = Len(dispLog) + 1
             /\ xTopicFilterContext' = xTopicFilterContext
             /\ UNCHANGED <<eMqttStatus, pumpPc, pumpResult, sessPc, xMQTTStatus>>]_vars

C16_Witness ==
    /\ Dispatched({UnknownPacketType}) # {}
    /\ Dispatched({MQTT_PACKET_TYPE_SUBACK}) # {}
    /\ \A i \in 1 .. Len(dispLog) : dispLog[i].level = "Warn"
    /\ xTopicFilterContext = InitializedTopics
    /\ Op("pump", MQTTSuccess) \in {sessTrace[i] : i \in 1 .. Len(sessTrace)}
    /\ sessPc = "done"

NoConnectYet == earlierCalls = <<>> /\ retryTrace = <<>>

\* the records differ at most in the acknowledgment status
OnlyStatusChanged(old, new) ==
    \A i \in 1 .. mqttexampleTOPIC_COUNT :
        new[i].pcTopicFilter = old[i].pcTopicFilter

\* C19: the topic filter records are filled before the first transport
\* connect of the session; from then on a record's acknowledgment status
\* changes only in the dispatch of a subscription acknowledgment, and no
\* retry, connect, publish, pump, disconnect or dispatch of another event
\* changes any record.
C19_TopicRecordsFrame ==
    /\ [](~NoConnectYet =>
             \A i \in 1 .. mqttexampleTOPIC_COUNT :
                 xTopicFilterContext[i].pcTopicFilter = InitializedTopics[i].pcTopicFilter)
    /\ [](RetryJustEntered /\ earlierCalls = <<>> =>
             xTopicFilterContext = InitializedTopics)
    /\ [][xTopicFilterContext' # xTopicFilterContext =>
             \/ NoConnectYet /\ xTopicFilterContext' = InitializedTopics
             \/ /\ Dispatching({MQTT_PACKET_TYPE_SUBACK})
                /\ OnlyStatusChanged(xTopicFilterContext, xTopicFilterContext')]_vars

C19_Witness ==
    /\ Dispatched({MQTT_PACKET_TYPE_SUBACK}) # {}
    /\ Dispatched({MQTT_PACKET_TYPE_PUBREC}) # {}
    /\ SessionFailures > 0
    /\ xTopicFilterContext = InitializedTopics
    /\ sessPc = "done"

\* C20: the dispatch of a PINGRESP writes one warning, not an error, changes
\* nothing of the program but the annotation slot, and leaves the pump's
\* status as it was.
C20_PingrespOnlyLogged ==
    /\ [](\A i \in Dispatched({MQTT_PACKET_TYPE_PINGRESP}) :
             /\ i <= Len(dispLog)
             /\ dispLog[i].level = "Warn"
             /\ dispLog[i].case = MQTT_PACKET_TYPE_PINGRESP)
    /\ [][Dispatching({MQTT_PACKET_TYPE_PINGRESP}) =>
             /\ Len(dispLog') = Len(dispLog) + 1
             /\ pNextAckInfo' = NULL
             /\ UNCHANGED <<staticVars, xAckInfo, timeVars, pumpVars, retryVars>>
             /\ UNCHANGED <<sessPc, sessNetworkStatus, xResult, xMQTTStatus>>]_vars

C20_Witness ==
    /\ Len(cbEvents) = 2
    /\ cbEvents[1].type = MQTT_PACKET_TYPE_PUBREC
    /\ cbEvents[2].type = MQTT_PACKET_TYPE_PINGRESP
    /\ pNextAckInfo = NULL
    /\ stepStatuses = <<MQTTSuccess, MQTTNeedMoreBytes>>
    /\ pumpResult = MQTTSuccess
    /\ sessPc = "done"

SucceededConnects(trace) ==
    Len(SelectSeq(trace, LAMBDA e : e.ev = "connect" /\ ~Failed(e)))

RECURSIVE SucceededConnectsOfCalls(_)
SucceededConnectsOfCalls(calls) ==
    IF calls = <<>> THEN 0
    ELSE SucceededConnects(Head(calls)) + SucceededConnectsOfCalls(Tail(calls))

TransportDisconnects ==
    Len(SelectSeq(sessTrace, LAMBDA e : e.op = "transport_disconnect"))

\* connections the finished calls opened and no disconnect has closed
OpenBeforeThisCall == SucceededConnectsOfCalls(earlierCalls) - TransportDisconnects

\* the same, with the connects of the call that is running
OpenTransportConnections ==
    OpenBeforeThisCall + (IF retryPc = "off" THEN 0 ELSE SucceededConnects(retryTrace))

\* C24 as stated: at most one transport connection is open at any point of
\* a session, and no transport connect is attempted while the connection of
\* an earlier call has not been disconnected.  The code connects again
\* without disconnecting.
C24_AtMostOneOpen ==
    /\ OpenTransportConnections <= 1
    /\ (retryPc # "off" /\ retryTrace # <<>>) => OpenBeforeThisCall = 0

\* a transport connection was established in this session
TransportEstablished ==
    \E i \in 1 .. Len(sessTrace) :
        sessTrace[i] = Op("transport_connect", PLAINTEXT_TRANSPORT_SUCCESS)

\* the transport was disconnected after the last connect that succeeded
DisconnectedAfterLastConnect ==
    \E j \in 1 .. Len(sessTrace) :
        /\ sessTrace[j].op = "transport_disconnect"
        /\ \A i \in j + 1 .. Len(sessTrace) :
              sessTrace[i] # Op("transport_connect", PLAINTEXT_TRANSPORT_SUCCESS)

\* C25 as stated: in every session that established a transport connection
\* the transport is eventually disconnected, whatever the protocol connects,
\* the publishes, the pump and the protocol disconnect return.  A failed
\* assertion stops the task before it disconnects.
C25_EventuallyDisconnected ==
    [](TransportEstablished => <>[]DisconnectedAfterLastConnect)

====
